---- MODULE Spec2Model ----
(***************************************************************************)
(* Model of the malloy CLI dispatcher (createCLI, run) and of runMalloy,   *)
(* src/src/cli.ts.  Text is a sequence of one-character strings.           *)
(***************************************************************************)
EXTENDS Integers, Sequences, FiniteSets, TLC

\* ------------------------------------------------------------------ bounds
\* the largest number of fragments getSQL's answer is put together from
MaxFrags == 2
\* the largest number of stored connection configs
MaxConfigs == 2

\* ------------------------------------------------------------- text helpers
Digits == {"0", "1", "2", "3", "4", "5", "6", "7", "8", "9"}

Letters ==
  {"a", "b", "c", "d", "e", "f", "g", "h", "i", "j", "k", "l", "m",
   "n", "o", "p", "q", "r", "s", "t", "u", "v", "w", "x", "y", "z",
   "A", "B", "C", "D", "E", "F", "G", "H", "I", "J", "K", "L", "M",
   "N", "O", "P", "Q", "R", "S", "T", "U", "V", "W", "X", "Y", "Z"}

Whitespace == {" "}

CharAt(s, i) == IF i >= 1 /\ i <= Len(s) THEN s[i] ELSE "EOF"

\* the first index >= i of s whose character is not in class (Len(s)+1 if none):
\* where a greedy \d+ or [a-zA-Z]+ that starts at i stops
RECURSIVE ClassEnd(_, _, _)
ClassEnd(s, i, class) ==
  IF i <= Len(s) /\ s[i] \in class THEN ClassEnd(s, i + 1, class) ELSE i

\* /'\((\d+)\) ([a-zA-Z]+)'/ tried at index i of s: the index of the closing
\* quote, or 0 when the pattern does not match there.  The classes and the
\* characters that follow them are disjoint, so the greedy match never
\* backtracks.
IntervalMatchEnd(s, i) ==
  LET d == ClassEnd(s, i + 2, Digits)
      l == ClassEnd(s, d + 2, Letters)
  IN  IF /\ CharAt(s, i) = "'"
         /\ CharAt(s, i + 1) = "("
         /\ d > i + 2
         /\ CharAt(s, d) = ")"
         /\ CharAt(s, d + 1) = " "
         /\ l > d + 2
         /\ CharAt(s, l) = "'"
      THEN l
      ELSE 0

\* the replacement "'$1 $2'" of the match that starts at i
IntervalReplacement(s, i) ==
  LET d == ClassEnd(s, i + 2, Digits)
      l == ClassEnd(s, d + 2, Letters)
  IN  <<"'">> \o SubSeq(s, i + 2, d - 1) \o <<" ">>
        \o SubSeq(s, d + 2, l - 1) \o <<"'">>

\* sql.replace(/'\((\d+)\) ([a-zA-Z]+)'/g, "'$1 $2'"): one left-to-right
\* pass; after a match the scan goes on behind the match
RECURSIVE ReplaceFrom(_, _)
ReplaceFrom(s, i) ==
  IF i > Len(s) THEN <<>>
  ELSE IF IntervalMatchEnd(s, i) # 0
       THEN IntervalReplacement(s, i) \o ReplaceFrom(s, IntervalMatchEnd(s, i) + 1)
       ELSE <<s[i]>> \o ReplaceFrom(s, i + 1)

FixIntervals(s) == ReplaceFrom(s, 1)

\* String.prototype.trim
RECURSIVE TrimLeft(_)
TrimLeft(s) ==
  IF s # <<>> /\ Head(s) \in Whitespace THEN TrimLeft(Tail(s)) ELSE s

RECURSIVE TrimRight(_)
TrimRight(s) ==
  IF s # <<>> /\ s[Len(s)] \in Whitespace
  THEN TrimRight(SubSeq(s, 1, Len(s) - 1))
  ELSE s

Trim(s) == TrimRight(TrimLeft(s))

\* s holds a quoted literal of the form '(<digits>) <letters>'
HasWrapped(s) == \E i \in 1..Len(s) : IntervalMatchEnd(s, i) # 0

\* ------------------------------------------------------------ input domains
\* pieces getSQL's answer is put together from: a wrapped literal, a wrapped
\* literal with several digits and letters, a quoted literal without digits
\* (which the pattern does not match), a blank, other text
Fragments ==
  { <<"'", "(", "3", ")", " ", "D", "'">>,
    <<"'", "(", "1", "2", ")", " ", "D", "A", "Y", "'">>,
    <<"'", "(", ")", " ", "D", "'">>,
    <<" ">>,
    <<"=">> }

RECURSIVE Concat(_)
Concat(fs) == IF fs = <<>> THEN <<>> ELSE Head(fs) \o Concat(Tail(fs))

SeqsUpTo(S, n) == UNION {[1..k -> S] : k \in 0..n}

\* the SQL texts getSQL may answer
SQLTexts == {Concat(fs) : fs \in SeqsUpTo(Fragments, MaxFrags)}

ConnectionNames == {"bokksu", "warehouse"}

\* the stored configs: names are unique within the store
ConfigLists ==
  {cs \in SeqsUpTo([name : ConnectionNames], MaxConfigs) :
     \A i, j \in 1..Len(cs) : i # j => cs[i].name # cs[j].name}

\* result rows a connection or the runtime may answer
ResultSets == {<<>>, <<"row">>}

Commands ==
  {"run", "compile", "list", "create-bigquery", "create-postgres",
   "create-duckdb", "test", "show", "delete", "config"}

QueryOptionTypes == {"absent", "Index", "Name", "String"}

\* ------------------------------------------------------------------- state
VARIABLES
  store,      \* the stored connection configs, as getAllConnectionConfigs lists them
  env,        \* process: test = (NODE_ENV === 'test'), pkg = process.pkg is set
  argv,       \* the command line handed to cli.parseAsync
  caller,     \* "cli": runMalloy is reached through the dispatcher; "lib": called directly
  pc,         \* position of the invocation
  opts,       \* cli.opts() once the command line is parsed
  options,    \* runMalloy's RunOrCompileOptions
  calls,      \* every call made so far on a collaborator, in order
  query,      \* runMalloy's local query: how it was loaded, the SQL it compiles to
  sql,        \* runMalloy's local sql
  json,       \* runMalloy's local json
  bokksu_config, \* runMalloy's local bokksu_config
  ret,        \* what runMalloy gave its caller
  outcome     \* how the invocation ended

vars ==
  <<store, env, argv, caller, pc, opts, options, calls, query, sql, json,
    bokksu_config, ret, outcome>>

Undefined == "undefined"

NoOptions == [json |-> FALSE, compileOnly |-> FALSE, queryOptions |-> "absent"]

EmptyObject == [k \in {} |-> <<>>]

NoReturn == [t |-> "none"]

NoQuery == [by |-> Undefined, sql |-> <<>>]

UndefinedConfig == [name |-> Undefined]

Call(op, arg) == [op |-> op, arg |-> arg]

Ops(cs) == [i \in 1..Len(cs) |-> cs[i].op]

Count(cs, op) == Cardinality({i \in 1..Len(cs) : cs[i].op = op})

Called(op) == \E i \in 1..Len(calls) : calls[i].op = op

Range(s) == {s[i] : i \in 1..Len(s)}

\* JSON.stringify(v): a string, the JSON text of v
Stringify(v) == [t |-> "string", text |-> v]

JSONObject(f) == [t |-> "object", fields |-> f]

JSONArray(rows) == [t |-> "array", items |-> rows]

\* the top-level keys of the JSON text p (none unless it encodes an object)
PayloadKeys(p) ==
  IF p.t = "string"
  THEN IF p.text.t = "object" THEN DOMAIN p.text.fields ELSE {}
  ELSE {}

\* -------------------------------------------------------------- dispatcher
\* an option's attribute name: commander camel-cases the long flag
AttributeName(flag) ==
  CASE flag = "query-name" -> "queryName"
    [] flag = "log-level" -> "logLevel"
    [] OTHER -> flag

\* only --index declares its conflict
RunOptionDeclsOneSided ==
  { [flag |-> "index", conflictsWith |-> {"query-name"}],
    [flag |-> "query-name", conflictsWith |-> {}] }

\* the options declared on the run command, with what each conflicts with
RunOptionDecls ==
  { [flag |-> "index", conflictsWith |-> {"query-name"}],
    [flag |-> "query-name", conflictsWith |-> {"index"}] }

\* the run options the command line gives a value
DefinedRunOptions(a) ==
  {o \in RunOptionDecls :
     \/ o.flag = "index" /\ a.index
     \/ o.flag = "query-name" /\ a.queryName}

\* commander's conflict check: a defined option names, among the attribute
\* names it conflicts with, another defined option
ConflictingOptions(a) ==
  \E o, d \in DefinedRunOptions(a) : AttributeName(d.flag) \in o.conflictsWith

\* the commands declared with .action(...)
HasAction(cmd) == cmd \in Commands \ {"create-duckdb"}

\* the usage error argument parsing ends with, or "none"
UsageError(a) ==
  CASE a.logLevel = "valued" -> "unknown command"
    [] a.cmd \notin Commands -> "unknown command"
    [] a.unknownOpt -> "unknown option"
    [] a.cmd # "run" /\ (a.index \/ a.queryName) -> "unknown option"
    [] a.cmd = "run" /\ ConflictingOptions(a) -> "conflicting option"
    [] OTHER -> "none"

\* cli.opts() of the global options: --log-level takes no value, so it is a
\* boolean flag whose default is 'warn'
GlobalOpts(a) ==
  [quiet |-> a.quiet,
   debug |-> a.debug,
   logLevel |-> IF a.logLevel = "absent" THEN "warn" ELSE "true"]

\* opts[key], undefined for a key opts does not hold
OptsGet(o, key) ==
  IF key \in DOMAIN o THEN o[key] ELSE Undefined

\* the level the preAction hook hands to createBasicLogger
HookLogLevel(e, o) ==
  LET debug == IF e.pkg THEN o.debug ELSE TRUE
  IN  IF debug THEN "debug" ELSE OptsGet(o, "log-level")

\* the calls of the preAction hook up to the one that throws
HookCalls(e, o, fail) ==
  (IF ~e.pkg /\ ~e.test THEN <<Call("console.log", <<"unpackaged">>)>> ELSE <<>>)
  \o <<Call("createBasicLogger", <<HookLogLevel(e, o)>>)>>
  \o (IF o.quiet THEN <<Call("silenceLoggers", <<>>)>> ELSE <<>>)
  \o <<Call("loadConfig", <<>>)>>
  \o (IF fail = "loadConfig" THEN <<>> ELSE <<Call("loadConnections", <<>>)>>)

Argvs ==
  [cmd : Commands \cup {"bogus"},
   quiet : BOOLEAN, debug : BOOLEAN,
   logLevel : {"absent", "bare", "valued"},
   index : BOOLEAN, queryName : BOOLEAN, unknownOpt : BOOLEAN]

NoArgv ==
  [cmd |-> "none", quiet |-> FALSE, debug |-> FALSE, logLevel |-> "absent",
   index |-> FALSE, queryName |-> FALSE, unknownOpt |-> FALSE]

InitCommon ==
  /\ store \in ConfigLists
  /\ opts = GlobalOpts(NoArgv)
  /\ calls = <<>>
  /\ query = NoQuery
  /\ sql = <<>>
  /\ json = EmptyObject
  /\ bokksu_config = UndefinedConfig
  /\ ret = NoReturn
  /\ outcome = "running"

\* run(): cli.parseAsync(process.argv)
InitCLI ==
  /\ caller = "cli"
  /\ env \in [test : BOOLEAN, pkg : BOOLEAN]
  /\ argv \in Argvs
  /\ options = NoOptions
  /\ pc = "parse"
  /\ InitCommon

\* runMalloy called directly, as the exported function it is
InitLib ==
  /\ caller = "lib"
  /\ env \in [test : BOOLEAN, pkg : {FALSE}]
  /\ argv = NoArgv
  /\ options \in [json : BOOLEAN, compileOnly : BOOLEAN,
                  queryOptions : QueryOptionTypes]
  /\ pc = "runMalloy"
  /\ InitCommon

Init == InitCLI \/ InitLib

\* argument parsing rejects the command line: outputError, the help hint of
\* showHelpAfterError, then process.exit(1); under test exitOverride makes
\* the error a thrown CommanderError and outputError prints nothing
ParseRejects ==
  /\ pc = "parse"
  /\ UsageError(argv) # "none"
  /\ opts' = GlobalOpts(argv)
  /\ calls' = calls \o
       (IF env.test
        THEN <<Call("outputError", <<"silent">>)>>
        ELSE <<Call("outputError", <<"red">>), Call("outputError", <<"help">>),
               Call("process.exit", <<"1">>)>>)
  /\ outcome' = IF env.test THEN "thrown" ELSE "exit1"
  /\ pc' = "exited"
  /\ UNCHANGED <<store, env, argv, caller, options, query, sql, json, bokksu_config, ret>>

ParseAccepts ==
  /\ pc = "parse"
  /\ UsageError(argv) = "none"
  /\ opts' = GlobalOpts(argv)
  /\ pc' = "dispatch"
  /\ UNCHANGED <<store, env, argv, caller, options, calls, query, sql, json,
                 bokksu_config, ret, outcome>>

\* a command declared without an action: no hook, no handler
NoActionHandler ==
  /\ pc = "dispatch"
  /\ ~HasAction(argv.cmd)
  /\ pc' = "exited"
  /\ outcome' = "exit0"
  /\ UNCHANGED <<store, env, argv, caller, opts, options, calls, query, sql, json,
                 bokksu_config, ret>>

\* cli.hook('preAction', ...)
PreAction ==
  /\ pc = "dispatch"
  /\ HasAction(argv.cmd)
  /\ \E fail \in {"none", "loadConfig", "loadConnections"} :
       /\ calls' = calls \o HookCalls(env, opts, fail)
       /\ pc' = IF fail = "none" THEN "action" ELSE "exited"
       /\ outcome' = IF fail = "none" THEN outcome ELSE "thrown"
  /\ UNCHANGED <<store, env, argv, caller, opts, options, query, sql, json, bokksu_config, ret>>

\* the options runCommand and compileCommand hand to runMalloy
HandlerOptions(a) ==
  [json |-> FALSE,
   compileOnly |-> (a.cmd = "compile"),
   queryOptions |-> IF a.index THEN "Index"
                    ELSE IF a.queryName THEN "Name" ELSE "absent"]

\* .action(runCommand), .action(compileCommand): up to the call of runMalloy
RunOrCompileHandler ==
  /\ pc = "action"
  /\ argv.cmd \in {"run", "compile"}
  /\ calls' = Append(calls, Call("action", <<argv.cmd>>))
  /\ options' = HandlerOptions(argv)
  /\ pc' = "runMalloy"
  /\ UNCHANGED <<store, env, argv, caller, opts, query, sql, json, bokksu_config, ret, outcome>>

\* the other commands' handlers
OtherHandler ==
  /\ pc = "action"
  /\ argv.cmd \notin {"run", "compile"}
  /\ calls' = Append(calls, Call("action", <<argv.cmd>>))
  /\ pc' = "exited"
  /\ outcome' = "exit0"
  /\ UNCHANGED <<store, env, argv, caller, opts, options, query, sql, json, bokksu_config, ret>>

\* ---------------------------------------------------------------- runMalloy
\* the switch falls through to the final query
ResolutionCallFinalOnly(queryOptions) == "loadFinalQuery"

\* the loader the query resolution calls for options.queryOptions
ResolutionCall(queryOptions) ==
  CASE queryOptions = "Index" -> "loadQueryByIndex"
    [] queryOptions = "Name" -> "loadQueryByName"
    [] queryOptions = "String" -> "loadQuery"
    [] OTHER -> "loadFinalQuery"

\* what the loader is handed
ResolutionArg(queryOptions) ==
  CASE queryOptions = "Index" -> <<"index">>
    [] queryOptions = "Name" -> <<"name">>
    [] queryOptions = "String" -> <<"run: ", "query">>
    [] OTHER -> <<>>

\* the places where runMalloy waits for a collaborator inside its try block
AwaitPcs ==
  {"await_query", "await_sql", "await_configs", "await_conn", "await_runsql",
   "await_run"}

\* for (const config of configs) if (config.name === 'bokksu') bokksu_config = config
RECURSIVE BokksuLoop(_, _, _)
BokksuLoop(configs, i, found) ==
  IF i > Len(configs) THEN found
  ELSE BokksuLoop(configs, i + 1,
                  IF configs[i].name = "bokksu" THEN configs[i] ELSE found)

FindBokksu(configs) == BokksuLoop(configs, 1, UndefinedConfig)

\* the compile-only return is missing
ReturnsAfterCompileNever(o) == FALSE

\* if (options.compileOnly): the return before anything is executed
ReturnsAfterCompile(o) == o.compileOnly

\* the direct path is never taken
TakesDirectPathNever(config) == FALSE

\* if (bokksu_config): the direct path is taken
TakesDirectPath(config) == config # UndefinedConfig

\* the setup before the try block, then the try block up to its first await.
\* An exception of the setup leaves runMalloy; one of loadModel is caught.
RunMalloyStart ==
  /\ pc = "runMalloy"
  /\ json' = EmptyObject
  /\ \E out \in {"ok", "setupThrows", "loadModelThrows"} :
       LET setup == <<Call("getFilteredResultsLogger", <<>>),
                      Call("pathToFileURL", <<>>),
                      Call("getConnectionLookup", <<>>)>>
       IN  CASE out = "setupThrows" ->
                  /\ calls' = calls \o setup
                  /\ ret' = [t |-> "threw"]
                  /\ pc' = "rm_done"
             [] out = "loadModelThrows" ->
                  /\ calls' = calls \o setup
                       \o <<Call("new Runtime", <<>>), Call("loadModel", <<>>),
                            Call("resultsLog.error", <<"loadModel">>)>>
                  /\ ret' = [t |-> "undefined"]
                  /\ pc' = "rm_done"
             [] OTHER ->
                  /\ calls' = calls \o setup
                       \o <<Call("new Runtime", <<>>), Call("loadModel", <<>>),
                            Call(ResolutionCall(options.queryOptions),
                                 ResolutionArg(options.queryOptions))>>
                  /\ ret' = ret
                  /\ pc' = "await_query"
  /\ UNCHANGED <<store, env, argv, caller, opts, options, query, sql, bokksu_config,
                 outcome>>

\* catch (e) { resultsLog.error(e) }: an awaited call rejects
AwaitRejects ==
  /\ pc \in AwaitPcs
  /\ calls' = Append(calls, Call("resultsLog.error", <<pc>>))
  /\ ret' = [t |-> "undefined"]
  /\ pc' = "rm_done"
  /\ UNCHANGED <<store, env, argv, caller, opts, options, query, sql, json,
                 bokksu_config, outcome>>

\* the loader answers with a query; query.getSQL() is called
QueryResolved ==
  /\ pc = "await_query"
  /\ \E s \in SQLTexts :
       query' = [by |-> ResolutionCall(options.queryOptions), sql |-> s]
  /\ calls' = Append(calls, Call("getSQL", <<>>))
  /\ pc' = "await_sql"
  /\ UNCHANGED <<store, env, argv, caller, opts, options, sql, json, bokksu_config,
                 ret, outcome>>

\* getSQL answers: the interval rewrite, json['sql'], then the compile-only
\* return or the call of getAllConnectionConfigs
GetSQLReturns ==
  /\ pc = "await_sql"
  /\ sql' = FixIntervals(query.sql)
  /\ json' = ("sql" :> Trim(sql')) @@ json
  /\ IF ReturnsAfterCompile(options)
     THEN /\ calls' = calls \o <<Call("resultsLog.sql", <<"Compiled SQL:">>),
                                 Call("resultsLog.sql", sql')>>
          /\ ret' = Stringify(JSONObject(json'))
          /\ pc' = "rm_done"
     ELSE /\ calls' = Append(calls, Call("getAllConnectionConfigs", <<>>))
          /\ ret' = ret
          /\ pc' = "await_configs"
  /\ UNCHANGED <<store, env, argv, caller, opts, options, query, bokksu_config, outcome>>

\* the stored configs arrive: the bokksu loop, then either
\* factory.getConnectionForConfig(bokksu_config) or query.run()
ConfigsReturned ==
  /\ pc = "await_configs"
  /\ LET configs == store
     IN  /\ bokksu_config' = FindBokksu(configs)
         /\ IF TakesDirectPath(bokksu_config')
            THEN /\ calls' = Append(calls, Call("getConnectionForConfig",
                                                <<bokksu_config'.name>>))
                 /\ pc' = "await_conn"
            ELSE /\ calls' = Append(calls, Call("query.run", query.sql))
                 /\ pc' = "await_run"
  /\ UNCHANGED <<store, env, argv, caller, opts, options, query, sql, json, ret, outcome>>

\* the connection is built: conn.runSQL(sql)
ConnReturned ==
  /\ pc = "await_conn"
  /\ calls' = Append(calls, Call("runSQL", sql))
  /\ pc' = "await_runsql"
  /\ UNCHANGED <<store, env, argv, caller, opts, options, query, sql, json,
                 bokksu_config, ret, outcome>>

\* runSQL answers: log the rows, return JSON.stringify(results)
RunSQLReturns ==
  /\ pc = "await_runsql"
  /\ \E rows \in ResultSets :
       /\ calls' = Append(calls, Call("resultsLog.result", rows))
       /\ ret' = Stringify(JSONArray(rows))
  /\ pc' = "rm_done"
  /\ UNCHANGED <<store, env, argv, caller, opts, options, query, sql, json,
                 bokksu_config, outcome>>

\* query.run answers: log the rows, json['results'], return JSON.stringify(json)
RunReturns ==
  /\ pc = "await_run"
  /\ \E rows \in ResultSets :
       /\ calls' = Append(calls, Call("resultsLog.result", rows))
       /\ json' = ("results" :> Stringify(JSONArray(rows))) @@ json
       /\ ret' = Stringify(JSONObject(json'))
  /\ pc' = "rm_done"
  /\ UNCHANGED <<store, env, argv, caller, opts, options, query, sql, bokksu_config,
                 outcome>>

\* runMalloy is back in the handler; parseAsync settles and the process ends
HandlerReturns ==
  /\ pc = "rm_done"
  /\ caller = "cli"
  /\ outcome' = IF ret.t = "threw" THEN "thrown" ELSE "exit0"
  /\ pc' = "exited"
  /\ UNCHANGED <<store, env, argv, caller, opts, options, calls, query, sql, json,
                 bokksu_config, ret>>

Next ==
  \/ ParseRejects \/ ParseAccepts \/ NoActionHandler \/ PreAction
  \/ RunOrCompileHandler \/ OtherHandler
  \/ RunMalloyStart \/ AwaitRejects \/ QueryResolved \/ GetSQLReturns
  \/ ConfigsReturned \/ ConnReturned \/ RunSQLReturns \/ RunReturns
  \/ HandlerReturns

Spec == Init /\ [][Next]_vars

\* ------------------------------------------------------------------ claims
IndexOf(op) == CHOOSE i \in 1..Len(calls) : calls[i].op = op

\* resultsLog.error was called for a failure at the place where
ErrorAt(where) ==
  \E i \in 1..Len(calls) :
    calls[i].op = "resultsLog.error" /\ calls[i].arg = <<where>>

Loaders == {"loadQueryByIndex", "loadQueryByName", "loadQuery", "loadFinalQuery"}

LoaderCalls == {i \in 1..Len(calls) : calls[i].op \in Loaders}

StoreHasBokksu == \E i \in 1..Len(store) : store[i].name = "bokksu"

RunMalloyEnded == ret.t # "none"

\* C1: no exception of any step of runMalloy, the setup before the try block
\* included, reaches the caller: each is reported once through
\* resultsLog.error and runMalloy then returns undefined.
C1_ExceptionsCaughtOnce ==
  /\ ret.t # "threw"
  /\ Count(calls, "resultsLog.error") <= 1
  /\ RunMalloyEnded =>
       (ret.t = "undefined" <=> Count(calls, "resultsLog.error") = 1)

\* C2: with options.compileOnly set, whatever the store holds and whichever
\* query is selected, runMalloy calls none of query.run,
\* getAllConnectionConfigs, getConnectionForConfig and runSQL; what it
\* returns is the JSON of {sql}, after logging the SQL.
C2_CompileOnlyNeverExecutes ==
  options.compileOnly =>
    /\ ~Called("query.run")
    /\ ~Called("getAllConnectionConfigs")
    /\ ~Called("getConnectionForConfig")
    /\ ~Called("runSQL")
    /\ pc \notin {"await_configs", "await_conn", "await_runsql", "await_run"}
    /\ ret.t = "string" =>
         /\ ret = Stringify(JSONObject("sql" :> Trim(sql)))
         /\ calls[Len(calls)] = Call("resultsLog.sql", sql)

C2_Witness ==
  /\ options.compileOnly
  /\ ret.t = "string"
  /\ StoreHasBokksu
  /\ options.queryOptions = "Name"

\* C3: every payload runMalloy returns holds `sql`, and holds `results` if
\* and only if the query was executed (by query.run or by runSQL).
C3_PayloadEnvelope ==
  ret.t = "string" =>
    /\ "sql" \in PayloadKeys(ret)
    /\ "results" \in PayloadKeys(ret) <=> (Called("query.run") \/ Called("runSQL"))

\* C4: `run` with both --index and --query-name is rejected by argument
\* parsing, so neither the hook nor the handler runs; with at most one of the
\* two (and nothing else wrong) parsing accepts; no handler ever starts with
\* both given.
C4_IndexAndNameRejected ==
  /\ (argv.cmd = "run" /\ argv.index /\ argv.queryName /\ pc # "parse") =>
       /\ pc = "exited"
       /\ Called("outputError")
       /\ ~Called("createBasicLogger")
       /\ ~Called("action")
  /\ (/\ argv.cmd = "run" /\ ~(argv.index /\ argv.queryName)
      /\ ~argv.unknownOpt /\ argv.logLevel # "valued" /\ pc # "parse") =>
       ~Called("outputError")
  /\ Called("action") => ~(argv.index /\ argv.queryName)

C4_Witness ==
  /\ argv.cmd = "run" /\ argv.index /\ argv.queryName
  /\ ~argv.unknownOpt /\ argv.logLevel # "valued"
  /\ pc = "exited"
  /\ outcome = "exit1"

HookOps == {"createBasicLogger", "silenceLoggers", "loadConfig", "loadConnections"}

IsHookOp(c) == c.op \in HookOps

HookOrder ==
  <<"createBasicLogger">>
  \o (IF argv.quiet THEN <<"silenceLoggers">> ELSE <<>>)
  \o <<"loadConfig", "loadConnections">>

\* C5: every invocation that parses to a declared subcommand runs the hook
\* exactly once, createBasicLogger, silenceLoggers when --quiet, loadConfig,
\* loadConnections in that order, and the handler body starts only after it.
C5_HookOncePerInvocation ==
  /\ (caller = "cli" /\ pc = "exited" /\ ~Called("outputError")) =>
       /\ Count(calls, "createBasicLogger") = 1
       /\ \E n \in 1..Len(HookOrder) :
            Ops(SelectSeq(calls, IsHookOp)) = SubSeq(HookOrder, 1, n)
  /\ Called("action") =>
       /\ Ops(SelectSeq(calls, IsHookOp)) = HookOrder
       /\ IndexOf("loadConnections") < IndexOf("action")

\* C6: once the model is loaded, one query resolution is attempted, by the
\* loader options.queryOptions selects, and never a second one; when it fails
\* the failure is reported through resultsLog.error, neither getSQL nor
\* query.run nor runSQL is called, and runMalloy returns undefined.
C6_OneResolution ==
  /\ Cardinality(LoaderCalls) <= 1
  /\ (Called("loadModel") /\ ~ErrorAt("loadModel")) =>
       /\ Cardinality(LoaderCalls) = 1
       /\ options.queryOptions = "Index" =>
            Call("loadQueryByIndex", <<"index">>) \in Range(calls)
       /\ options.queryOptions = "Name" =>
            Call("loadQueryByName", <<"name">>) \in Range(calls)
       /\ options.queryOptions = "String" =>
            Call("loadQuery", <<"run: ", "query">>) \in Range(calls)
       /\ options.queryOptions = "absent" =>
            Call("loadFinalQuery", <<>>) \in Range(calls)
  /\ Called("getSQL") => \E i \in LoaderCalls : i < IndexOf("getSQL")
  /\ ErrorAt("await_query") =>
       /\ ~Called("getSQL") /\ ~Called("query.run") /\ ~Called("runSQL")
       /\ Count(calls, "resultsLog.error") = 1
       /\ ret = [t |-> "undefined"]

C6_Witness ==
  /\ ErrorAt("await_query")
  /\ options.queryOptions = "Name"
  /\ Called("loadQueryByName")

\* C7: a run that is not compile-only takes one execution path: with a stored
\* config named "bokksu", runSQL once on the connection built from that
\* config and never query.run; without one, query.run once and no runSQL.
\* Never both, and never before getSQL has answered.
C7_OneExecutionPath ==
  /\ Count(calls, "runSQL") <= 1
  /\ Count(calls, "query.run") <= 1
  /\ ~(Called("runSQL") /\ Called("query.run"))
  /\ Called("getConnectionForConfig") =>
       /\ StoreHasBokksu
       /\ Call("getConnectionForConfig", <<"bokksu">>) \in Range(calls)
  /\ Called("runSQL") =>
       IndexOf("getConnectionForConfig") < IndexOf("runSQL")
  /\ Called("query.run") => ~StoreHasBokksu /\ ~Called("getConnectionForConfig")
  /\ (Called("runSQL") \/ Called("query.run")) =>
       /\ "sql" \in DOMAIN json
       /\ IndexOf("getSQL") < Len(calls)
       /\ ~options.compileOnly
  /\ pc \in {"await_conn", "await_runsql"} => StoreHasBokksu
  /\ pc = "await_run" => Count(calls, "query.run") = 1
  /\ pc = "await_runsql" => Count(calls, "runSQL") = 1
  /\ (ret.t = "string" /\ ~options.compileOnly) =>
       IF StoreHasBokksu
       THEN Count(calls, "runSQL") = 1 /\ ~Called("query.run")
       ELSE Count(calls, "query.run") = 1 /\ ~Called("runSQL")

C7_Witness ==
  /\ ret.t = "string"
  /\ Called("runSQL")
  /\ Len(store) = 2
  /\ store[1].name = "bokksu"

ErrorReported == Called("outputError") \/ Called("resultsLog.error")

SQLUses ==
  {i \in 1..Len(calls) :
     \/ calls[i].op \in {"runSQL", "query.run"}
     \/ calls[i].op = "resultsLog.sql" /\ calls[i].arg # <<"Compiled SQL:">>}

\* C9: the SQL runMalloy returns, logs and executes, by the direct path or
\* by the standard one, is getSQL's answer with every '(<digits>) <letters>'
\* literal rewritten: no use of it holds a wrapped literal.
C9_RewrittenSQLEverywhere ==
  /\ \A i \in SQLUses : ~HasWrapped(calls[i].arg)
  /\ "sql" \in DOMAIN json => ~HasWrapped(json["sql"])

Levels == {"error", "warn", "info", "debug"}

\* C10: the hook creates the logger at 'debug' when unpackaged, and when
\* packaged at 'debug' under --debug and else at the level of --log-level
\* ('warn' when absent); it silences the loggers if and only if --quiet,
\* after creating the logger.
C10_LogLevelSelection ==
  Called("createBasicLogger") =>
    LET level == calls[IndexOf("createBasicLogger")].arg[1]
    IN  /\ (~env.pkg \/ argv.debug) => level = "debug"
        /\ (env.pkg /\ ~argv.debug) =>
             /\ level \in Levels
             /\ argv.logLevel = "absent" => level = "warn"
        /\ Called("silenceLoggers") <=> argv.quiet
        /\ Called("silenceLoggers") =>
             IndexOf("createBasicLogger") < IndexOf("silenceLoggers")
====
